---- MODULE Spec2Model ----
(***************************************************************************)
(* Particle swarm optimisation, PSO.py: the parameter defaulting           *)
(* (default_PSO_params), the particle (class Particle) and the driver      *)
(* (PSO): initial evaluation, the iterate-evaluate-update loop, the        *)
(* global best, the record of best costs and early stopping.               *)
(*                                                                         *)
(* Numbers.  The program computes in floating point; the model holds every *)
(* real quantity in fixed point, rounding to the nearest unit:             *)
(*   - positions, velocities and bounds in halves: 1.0 is One steps;       *)
(*   - the coefficients w, wdamp, c1, c2, con and velocity_limit_scale in  *)
(*     hundredths: 2.05 is 205, 0.7298437881283576 is 73;                  *)
(*   - draws of np.random.rand and the sigmoid in thousandths;             *)
(*   - costs in units of 0.00005, so the early-stopping tolerance 0.0001   *)
(*     is 2 units.                                                         *)
(* A numpy array is a sequence.  No statement of the program writes into   *)
(* an existing array (+, -, *, np.max, np.min and the list comprehension   *)
(* all build a new one), so a name bound to an array keeps its value until *)
(* the name is bound again, and arrays are modelled as values.             *)
(***************************************************************************)
EXTENDS Integers, Sequences, FiniteSets, TLC

VARIABLES
    problem,        \* the caller's problem: cost_function, varmin, varmax
    given,          \* history: the params mapping as the caller passed it
    params,         \* the params dictionary (default_PSO_params fills it in place)
    local,          \* PSO's locals read from params: maxit, n_part, w, wdamp, c1, c2,
                    \* con, max_velocity, min_velocity
    particles,      \* particles_vector
    gbest_value,
    gbest_position,
    best_costs,     \* np.zeros(maxit+1), indexed from 0
    it,             \* index of the main loop
    idx,            \* number of particles the running for-loop has handled
    recorded,       \* history: gbest_value at the end of initialisation and of
                    \* every iteration, in order
    pc,             \* "start", "init", "loop", "stopped", "finished", "error"
    error           \* the exception that ended the call, "" if none

vars == <<problem, given, params, local, particles, gbest_value, gbest_position,
          best_costs, it, idx, recorded, pc, error>>

----------------------------------------------------------------------------
(* Constants of the program, in the units above.                           *)

One == 2            \* the value 1 of a binary position, in steps
Inf == 1000000      \* float('inf'): above every cost
DefaultMaxit == 30
DefaultNPart == 15
DefaultW == 100
DefaultWdamp == 100
DefaultC1 == 205
DefaultC2 == 205
Constriction == 73
DefaultDisplayInfo == 1
DefaultEarlyStopping == 0
DefaultEarlyStoppingRounds == 10
DefaultBPSO == 0
DefaultVelocityLimitScale == 20
BinaryVelocityLimitScale == 100
EarlyStopTolerance == 2

----------------------------------------------------------------------------
(* Dictionaries: a function whose domain is the set of keys present.       *)

EmptyDict == [k \in {} |-> 0]

Has(d, k) == k \in DOMAIN d

Put(d, k, v) == [x \in DOMAIN d \cup {k} |-> IF x = k THEN v ELSE d[x]]

(* Arithmetic helpers. *)

Abs(x) == IF x < 0 THEN -x ELSE x

Max2(a, b) == IF a < b THEN b ELSE a

Min2(a, b) == IF b < a THEN b ELSE a

\* n / d rounded to the nearest integer (d > 0)
RoundDiv(n, d) == (2 * n + d) \div (2 * d)

(* numpy shapes of one-dimensional arrays. *)

\* two arrays can be combined elementwise: equal lengths, or one of length 1
Broadcastable(a, b) == Len(a) = Len(b) \/ Len(a) = 1 \/ Len(b) = 1

BroadcastLen(a, b) == Max2(Len(a), Len(b))

\* element i of an array stretched by broadcasting
At(a, i) == IF Len(a) = 1 THEN a[1] ELSE a[i]

\* a - b, elementwise with broadcasting
ArraySub(a, b) == [i \in 1..BroadcastLen(a, b) |-> At(a, i) - At(b, i)]

\* a + b, elementwise with broadcasting
ArrayAdd(a, b) == [i \in 1..BroadcastLen(a, b) |-> At(a, i) + At(b, i)]

----------------------------------------------------------------------------
(* default_PSO_params: each statement in the order of the source.          *)

DefaultKey(p, k, v) == IF ~Has(p, k) THEN Put(p, k, v) ELSE p

\* lines 30-31: the default of con
DefaultCon(p) ==
    IF ~Has(p, "con") /\ p["wdamp"] # 100 /\ p["w"] # 100
    THEN Put(p, "con", Constriction)
    ELSE p

\* line 40-43: the default of velocity_limit_scale
DefaultVelocityLimit(p) ==
    IF ~Has(p, "velocity_limit_scale") /\ p["BPSO"] = 0
    THEN Put(p, "velocity_limit_scale", DefaultVelocityLimitScale)
    ELSE IF p["BPSO"] = 1
         THEN Put(p, "velocity_limit_scale", BinaryVelocityLimitScale)
         ELSE p

default_PSO_params(p0) ==
    LET p1 == DefaultKey(p0, "maxit", DefaultMaxit)
        p2 == DefaultKey(p1, "n_part", DefaultNPart)
        p3 == DefaultKey(p2, "w", DefaultW)
        p4 == DefaultKey(p3, "wdamp", DefaultWdamp)
        p5 == DefaultKey(p4, "c1", DefaultC1)
        p6 == DefaultKey(p5, "c2", DefaultC2)
        p7 == DefaultCon(p6)
        p8 == DefaultKey(p7, "display_info", DefaultDisplayInfo)
        p9 == DefaultKey(p8, "early_stopping", DefaultEarlyStopping)
        p10 == DefaultKey(p9, "early_stopping_rounds", DefaultEarlyStoppingRounds)
        p11 == DefaultKey(p10, "BPSO", DefaultBPSO)
    IN  DefaultVelocityLimit(p11)

----------------------------------------------------------------------------
(* PSO, lines 148-172: read the problem, resolve the parameters, read them *)
(* into locals, compute the velocity limits, create the particles.         *)

\* Particle.__init__: position and velocity are the scalar 0 (a one-element
\* array to numpy's broadcasting), pbest_value is inf
NewParticle ==
    [position |-> <<0>>, velocity |-> <<0>>, pbest_position |-> <<0>>, pbest_value |-> Inf]

NoLocals ==
    [maxit |-> 0, n_part |-> 0, w |-> 0, wdamp |-> 0, c1 |-> 0, c2 |-> 0, con |-> 0,
     max_velocity |-> <<>>, min_velocity |-> <<>>]

\* line 164: velocity_limit_scale * (varmax - varmin)
MaxVelocity(scale, varmin, varmax) ==
    LET range == ArraySub(varmax, varmin)
    IN  [i \in 1..Len(range) |-> RoundDiv(scale * range[i], 100)]

Negate(a) == [i \in 1..Len(a) |-> -a[i]]

Raise(e) ==
    /\ pc' = "error"
    /\ error' = e

Configure ==
    /\ pc = "start"
    /\ LET p == default_PSO_params(params)
       IN  /\ params' = p
           /\ IF ~Has(p, "con") \/ ~Has(p, "velocity_limit_scale")
              THEN \* params['con'], params['velocity_limit_scale']: KeyError
                   /\ Raise("KeyError")
                   /\ UNCHANGED <<local, particles>>
              ELSE IF ~Broadcastable(problem.varmax, problem.varmin)
              THEN \* varmax - varmin: operands could not be broadcast together
                   /\ Raise("ValueError")
                   /\ UNCHANGED <<local, particles>>
              ELSE LET mv == MaxVelocity(p["velocity_limit_scale"],
                                         problem.varmin, problem.varmax)
                   IN  /\ local' = [maxit |-> p["maxit"], n_part |-> p["n_part"],
                                    w |-> p["w"], wdamp |-> p["wdamp"],
                                    c1 |-> p["c1"], c2 |-> p["c2"], con |-> p["con"],
                                    max_velocity |-> mv, min_velocity |-> Negate(mv)]
                       /\ particles' = [n \in 1..p["n_part"] |-> NewParticle]
                       /\ pc' = "init"
                       /\ UNCHANGED error
    /\ UNCHANGED <<problem, given, gbest_value, gbest_position, best_costs, it, idx,
                   recorded>>

----------------------------------------------------------------------------
(* class Particle.                                                         *)

\* the draws the model takes for np.random.rand(), in thousandths
RandDraws == {0, 500, 999}

\* the values between two bounds, in steps: what a uniform draw rounds to
Between(a, b) == Min2(a, b)..Max2(a, b)

\* np.random.uniform(low, high, size=[1, n]): low and high must broadcast to n
UniformOk(low, high, n) == Len(low) \in {1, n} /\ Len(high) \in {1, n}

UniformDraws(low, high, n) ==
    {s \in [1..n -> UNION {Between(At(low, i), At(high, i)) : i \in 1..n}] :
        \A i \in 1..n : s[i] \in Between(At(low, i), At(high, i))}

\* `not BPSO`
Binary(p) == p["BPSO"] # 0

\* np.max([a, b], axis=0) and np.min([a, b], axis=0) stack a and b into one
\* array first, which needs equal lengths
Stackable(a, b) == Len(a) = Len(b)

ArrayMax(a, b) == [i \in 1..Len(a) |-> Max2(a[i], b[i])]

ArrayMin(a, b) == [i \in 1..Len(a) |-> Min2(a[i], b[i])]

\* lines 64-66, one component: con * (w*v + c1*r1*(pbest - x) + c2*r2*(gbest - x)),
\* dp and dg the two differences
VelocityTerm(con, w, c1, c2, r1, r2, v, dp, dg) ==
    RoundDiv(con * (w * v * 1000 + c1 * r1 * dp + c2 * r2 * dg), 100 * 100 * 1000)

\* lines 64-66: the new velocity before the limits
RawVelocity(p, l, gbest, r1, r2) ==
    LET dp == ArraySub(p.pbest_position, p.position)
        dg == ArraySub(gbest, p.position)
        n == Max2(Len(p.velocity), Max2(Len(dp), Len(dg)))
    IN  [i \in 1..n |->
            VelocityTerm(l.con, l.w, l.c1, l.c2, r1, r2,
                         At(p.velocity, i), At(dp, i), At(dg, i))]

\* lines 68-69: the velocity limits
LimitVelocity(v, min_velocity, max_velocity) ==
    ArrayMin(ArrayMax(v, min_velocity), max_velocity)

\* lines 75-76 without the upper limit of line 76
LimitPositionLowOnly(x, varmin, varmax) == ArrayMax(x, varmin)

\* lines 75-76: the position limits
LimitPosition(x, varmin, varmax) == ArrayMin(ArrayMax(x, varmin), varmax)

\* line 82: 1/(1 + exp(-x)) in thousandths, x in steps
sigmoid(x) ==
    LET t == CASE Abs(x) = 0 -> 500
               [] Abs(x) = 1 -> 622
               [] Abs(x) = 2 -> 731
               [] Abs(x) = 3 -> 818
               [] Abs(x) = 4 -> 881
               [] Abs(x) = 5 -> 924
               [] Abs(x) = 6 -> 953
               [] Abs(x) = 7 -> 971
               [] Abs(x) = 8 -> 982
               [] OTHER -> 999
    IN  IF x < 0 THEN 1000 - t ELSE t

\* line 79: 1 if the draw is below the sigmoid, else 0
BinaryPosition(v, draws) == [i \in 1..Len(v) |-> IF draws[i] < sigmoid(v[i]) THEN One ELSE 0]

----------------------------------------------------------------------------
(* The cost functions of the model's callers: cost(position, args).        *)

RECURSIVE SumTo(_, _)
SumTo(f, n) == IF n = 0 THEN 0 ELSE f[n] + SumTo(f, n - 1)

CostFunctions == {"constant", "sum", "zeros"}

Cost(cf, x) ==
    CASE cf = "constant" -> 0
      [] cf = "sum" -> SumTo(x, Len(x))
      [] cf = "zeros" -> SumTo([i \in 1..Len(x) |-> IF x[i] = 0 THEN 1 ELSE 0], Len(x))

----------------------------------------------------------------------------
(* PSO, lines 174-180: initial position and evaluation of one particle.    *)

\* the comparison of line 178 turned around
InitImprovesGlobalFlipped(value, gbest) == value > gbest

\* line 178
InitImprovesGlobal(value, gbest) == value < gbest

InitialiseParticle ==
    /\ pc = "init"
    /\ idx < local.n_part
    /\ LET n == Len(problem.varmin)
       IN  IF ~UniformOk(problem.varmin, problem.varmax, n)
           THEN \* np.random.uniform: shape mismatch
                /\ Raise("ValueError")
                /\ UNCHANGED <<particles, gbest_value, gbest_position, idx>>
           ELSE \E x \in IF Binary(params)
                         THEN UniformDraws(<<0>>, <<One>>, n)
                         ELSE UniformDraws(problem.varmin, problem.varmax, n),
                   v \in UniformDraws(problem.varmin, problem.varmax, n) :
                   LET value == Cost(problem.cost_function, x)
                       better == InitImprovesGlobal(value, gbest_value)
                   IN  /\ particles' = [particles EXCEPT ![idx + 1] =
                                           [position |-> x, velocity |-> v,
                                            pbest_position |-> x, pbest_value |-> value]]
                       /\ gbest_value' = IF better THEN value ELSE gbest_value
                       /\ gbest_position' = IF better THEN x ELSE gbest_position
                       /\ idx' = idx + 1
                       /\ UNCHANGED <<pc, error>>
    /\ UNCHANGED <<problem, given, params, local, best_costs, it, recorded>>

(* Lines 182-186: allocate best_costs, record the initial best, enter the loop. *)

StartLoop ==
    /\ pc = "init"
    /\ idx = local.n_part
    /\ best_costs' = [k \in 0..local.maxit |-> IF k = 0 THEN gbest_value ELSE 0]
    /\ recorded' = <<gbest_value>>
    /\ it' = 0
    /\ idx' = 0
    /\ pc' = IF local.maxit = 0 THEN "finished" ELSE "loop"
    /\ UNCHANGED <<problem, given, params, local, particles, gbest_value, gbest_position,
                   error>>

(* Lines 188-202: one particle of one iteration. *)

\* line 197
ImprovesPersonal(cost, pbest) == cost < pbest

\* line 200 left out: every personal improvement becomes the global best
ImprovesGlobalAlways(cost, gbest) == TRUE

\* line 200 with <= for <
ImprovesGlobalOrEqual(cost, gbest) == cost <= gbest

\* line 200
ImprovesGlobal(cost, gbest) == cost < gbest

\* update_position, continuous mode (lines 73-76)
MovedPosition(x, v, varmin, varmax) == LimitPosition(ArrayAdd(x, v), varmin, varmax)

\* update_velocity: the velocities the draws r1, r2 of np.random.rand() can give
NewVelocities(p, l, gbest) ==
    {LimitVelocity(RawVelocity(p, l, gbest, r1, r2), l.min_velocity, l.max_velocity) :
        r1 \in RandDraws, r2 \in RandDraws}

\* update_position: the positions the draws of np.random.rand(1) can give
NewPositions(x, v, varmin, varmax, binary) ==
    IF binary
    THEN {BinaryPosition(v, draws) : draws \in [1..Len(v) -> RandDraws]}
    ELSE {MovedPosition(x, v, varmin, varmax)}

UpdateParticle ==
    /\ pc = "loop"
    /\ idx < local.n_part
    /\ LET p == particles[idx + 1]
       IN  IF \/ ~Stackable(p.velocity, local.min_velocity)
              \/ ~Binary(params) /\ (~Stackable(p.position, problem.varmin)
                                     \/ ~Stackable(p.position, problem.varmax))
           THEN \* np.max / np.min over arrays of different lengths
                /\ Raise("ValueError")
                /\ UNCHANGED <<particles, gbest_value, gbest_position, idx>>
           ELSE \E v \in NewVelocities(p, local, gbest_position) :
                \E x \in NewPositions(p.position, v, problem.varmin, problem.varmax,
                                      Binary(params)) :
                   LET cost == Cost(problem.cost_function, x)
                       pb == ImprovesPersonal(cost, p.pbest_value)
                       gb == pb /\ ImprovesGlobal(cost, gbest_value)
                   IN  /\ particles' = [particles EXCEPT ![idx + 1] =
                                           [position |-> x, velocity |-> v,
                                            pbest_position |->
                                                IF pb THEN x ELSE p.pbest_position,
                                            pbest_value |->
                                                IF pb THEN cost ELSE p.pbest_value]]
                       /\ gbest_value' = IF gb THEN cost ELSE gbest_value
                       /\ gbest_position' = IF gb THEN x ELSE gbest_position
                       /\ idx' = idx + 1
                       /\ UNCHANGED <<pc, error>>
    /\ UNCHANGED <<problem, given, params, local, best_costs, it, recorded>>

(* Lines 204-223: the end of an iteration and the return. *)

\* line 204 writing best_costs[it]
RecordIndexOff(i) == i

\* line 204: the index of best_costs an iteration writes
RecordIndex(i) == i + 1

\* line 211 one round late
EarlyStopDueLate(i, rounds) == i > rounds + 1

\* line 211: it > early_stopping_rounds
EarlyStopDue(i, rounds) == i > rounds

\* line 212
Stagnated(costs, i, rounds) ==
    Abs(costs[i + 1] - costs[i + 1 - rounds]) < EarlyStopTolerance

EndIteration ==
    /\ pc = "loop"
    /\ idx = local.n_part
    /\ LET costs == [best_costs EXCEPT ![RecordIndex(it)] = gbest_value]
       IN  /\ best_costs' = costs
           /\ recorded' = Append(recorded, gbest_value)
           /\ local' = [local EXCEPT !.w = RoundDiv(local.w * local.wdamp, 100)]
           /\ IF /\ params["early_stopping"] # 0
                 /\ EarlyStopDue(it, params["early_stopping_rounds"])
                 /\ Stagnated(costs, it, params["early_stopping_rounds"])
              THEN \* line 218
                   /\ pc' = "stopped"
                   /\ UNCHANGED <<it, idx>>
              ELSE IF it + 1 < local.maxit
              THEN /\ it' = it + 1
                   /\ idx' = 0
                   /\ UNCHANGED pc
              ELSE \* line 223
                   /\ pc' = "finished"
                   /\ UNCHANGED <<it, idx>>
    /\ UNCHANGED <<problem, given, params, particles, gbest_value, gbest_position, error>>

----------------------------------------------------------------------------
(* The configuration stage alone, over every params mapping a caller can   *)
(* build from the values below.                                            *)

Keys == {"maxit", "n_part", "w", "wdamp", "c1", "c2", "con", "display_info",
         "early_stopping", "early_stopping_rounds", "BPSO", "velocity_limit_scale"}

CallerValues ==
    [maxit |-> {2}, n_part |-> {1}, w |-> {90, 100}, wdamp |-> {20, 100},
     c1 |-> {200}, c2 |-> {200}, con |-> {100}, display_info |-> {0},
     early_stopping |-> {1}, early_stopping_rounds |-> {5}, BPSO |-> {0, 1},
     velocity_limit_scale |-> {50}]

RECURSIVE Dicts(_)
Dicts(ks) ==
    IF ks = {} THEN {EmptyDict}
    ELSE LET k == CHOOSE x \in ks : TRUE
             rest == Dicts(ks \ {k})
         IN  rest \cup {Put(d, k, v) : d \in rest, v \in CallerValues[k]}

ConfigProblems ==
    {[cost_function |-> "constant", varmin |-> <<0>>, varmax |-> <<4>>],
     [cost_function |-> "constant", varmin |-> <<0, 0>>, varmax |-> <<4, 6>>],
     [cost_function |-> "constant", varmin |-> <<0, 0>>, varmax |-> <<4, 4, 4>>]}

InitState(prob, par) ==
    /\ problem = prob
    /\ given = par
    /\ params = par
    /\ local = NoLocals
    /\ particles = <<>>
    /\ gbest_value = Inf
    /\ gbest_position = <<>>
    /\ best_costs = <<>>
    /\ it = 0
    /\ idx = 0
    /\ recorded = <<>>
    /\ pc = "start"
    /\ error = ""

InitConfig == \E prob \in ConfigProblems, par \in Dicts(Keys) : InitState(prob, par)

NextConfig == Configure

SpecConfig == InitConfig /\ [][NextConfig]_vars

----------------------------------------------------------------------------
(* Whole runs, over the problems and params mappings below; the bounds of  *)
(* the model.                                                              *)

MaxDim == 3         \* longest varmin / varmax
MaxPart == 2        \* largest n_part
MaxCells == 2       \* largest n_part * len(varmin)
MaxIt == 3          \* largest maxit
MaxRounds == 2      \* largest early_stopping_rounds
LongRounds == 5     \* early_stopping_rounds of the one-particle, one-dimension runs

\* d with the keys of e added
Merge(d, e) == [k \in DOMAIN d \cup DOMAIN e |-> IF k \in DOMAIN e THEN e[k] ELSE d[k]]

\* how long a run is: a full run without early stopping, the longest run with
\* early stopping after r rounds, or a long run with early stopping after
\* LongRounds rounds
Schedules ==
    {[maxit |-> MaxIt - 1]}
    \cup {[maxit |-> MaxIt, early_stopping |-> 1, early_stopping_rounds |-> r] :
             r \in 0..MaxRounds}
    \cup {[maxit |-> LongRounds + 3, early_stopping |-> 1,
           early_stopping_rounds |-> LongRounds]}

\* the params of a run: how the particles move, how long and how many
ParamsOf(motions) ==
    {Merge(Merge(m, s), [n_part |-> np]) :
        m \in motions, s \in Schedules, np \in 1..MaxPart}

\* varmin of length a and varmax of length b, from 0 to high in every dimension
ProblemsOf(costs, high) ==
    {[cost_function |-> cf, varmin |-> [i \in 1..a |-> 0],
      varmax |-> [i \in 1..b |-> high]] :
        cf \in costs, a \in 1..MaxDim, b \in 1..MaxDim}

\* continuous runs over [0, 1]: without con (KeyError), with the default
\* velocity limit, and with constriction and a decaying inertia weight
ContinuousRuns ==
    ProblemsOf({"constant", "sum"}, One)
    \X ParamsOf({EmptyDict,
                 [con |-> 100],
                 [w |-> 90, wdamp |-> 20, velocity_limit_scale |-> 50]})

\* binary runs, the velocity drawn from [0, 0.5]
BinaryRuns ==
    ProblemsOf({"constant", "zeros"}, 1) \X ParamsOf({[con |-> 100, BPSO |-> 1]})

Init ==
    \E run \in ContinuousRuns \cup BinaryRuns :
        /\ run[2]["n_part"] * Len(run[1].varmin)
              <= IF run[2]["maxit"] > MaxIt THEN 1 ELSE MaxCells
        /\ InitState(run[1], run[2])

Next ==
    \/ Configure
    \/ InitialiseParticle
    \/ StartLoop
    \/ UpdateParticle
    \/ EndIteration

Spec == Init /\ [][Next]_vars

----------------------------------------------------------------------------
(* Properties.                                                             *)

\* PSO has resolved the parameters and the particles exist
Running == pc \in {"init", "loop", "stopped", "finished"}

\* PSO has returned a result
Returned == pc \in {"stopped", "finished"}

\* particle n has been through initial_position and its first evaluation
Initialised(n) ==
    /\ n \in DOMAIN particles
    /\ \/ pc \in {"loop", "stopped", "finished"}
       \/ pc = "init" /\ n <= idx

\* a for-loop over the particles has just ended, or the call has returned
AtRest ==
    \/ pc = "init" /\ idx = local.n_part
    \/ pc = "loop" /\ idx \in {0, local.n_part}
    \/ Returned

MinOf(S) == CHOOSE m \in S : \A x \in S : m <= x

PersonalBests == {particles[n].pbest_value : n \in DOMAIN particles}

\* C1: when the caller omits con, defaulting resolves con to the constriction
\* value if w # 1 and wdamp # 1 (after their defaulting) and to 1 otherwise, so
\* PSO reads a defined con and does not fail on it.
C1_ConResolved ==
    (pc # "start" /\ ~Has(given, "con")) =>
        /\ Has(params, "con")
        /\ params["con"] = IF params["w"] # 100 /\ params["wdamp"] # 100
                           THEN Constriction ELSE 100
        /\ error # "KeyError"

\* C2: the global best value never increases: no step raises gbest_value, and
\* the recorded best_costs[0..completed iterations] are non-increasing.
C2_GlobalBestNeverIncreases ==
    [][/\ gbest_value' <= gbest_value
       /\ \A k \in 0..(Len(recorded') - 2) : best_costs'[k + 1] <= best_costs'[k]]_vars

\* C2 witness: an iteration lowered the global best below the initial best
C2_Witness ==
    /\ pc = "loop"
    /\ Len(recorded) >= 3
    /\ best_costs[2] < best_costs[1]
    /\ best_costs[1] < best_costs[0]

\* C3: at the end of initialisation and of every iteration gbest_value is the
\* minimum of the particles' pbest_value, and no pbest_value is below it.
C3_GlobalBestIsMinimum ==
    AtRest =>
        /\ gbest_value = MinOf(PersonalBests)
        /\ \A n \in DOMAIN particles : particles[n].pbest_value >= gbest_value

\* C3 witness: after an iteration that improved the global best, two particles
\* with different personal bests
C3_Witness ==
    /\ pc = "loop"
    /\ it >= 1
    /\ idx = 0
    /\ Len(particles) = 2
    /\ particles[1].pbest_value > particles[2].pbest_value
    /\ gbest_value < best_costs[0]

\* C4: in binary mode every component of every particle's position is 0 or 1
\* from the particle's initialisation on.
C4_BinaryPositions ==
    (Running /\ params["BPSO"] = 1) =>
        \A n \in DOMAIN particles :
            Initialised(n) =>
                \A i \in DOMAIN particles[n].position :
                    particles[n].position[i] \in {0, One}

\* the bounds have one length and varmin[i] <= varmax[i] for every i
BoundsOrdered ==
    /\ Len(problem.varmin) = Len(problem.varmax)
    /\ \A i \in DOMAIN problem.varmin : problem.varmin[i] <= problem.varmax[i]

\* C5: in continuous mode with varmin <= varmax every position lies within the
\* bounds after initial_position and after every update_position.
C5_PositionWithinBounds ==
    (Running /\ params["BPSO"] = 0 /\ BoundsOrdered) =>
        \A n \in DOMAIN particles :
            Initialised(n) =>
                \A i \in DOMAIN problem.varmin :
                    /\ problem.varmin[i] <= particles[n].position[i]
                    /\ particles[n].position[i] <= problem.varmax[i]

\* C5 witness: a particle updated in this iteration moves at full speed upwards
\* and sits on the upper bound
C5_Witness ==
    /\ pc = "loop"
    /\ params["BPSO"] = 0
    /\ BoundsOrdered
    /\ it >= 1
    /\ idx >= 1
    /\ particles[idx].velocity[1] = local.max_velocity[1]
    /\ particles[idx].velocity[1] > 0
    /\ particles[idx].position[1] = problem.varmax[1]

\* C6: with early stopping on, early_stopping_rounds = R, a constant cost and
\* maxit > R+1, the run returns from inside the loop at index R+1 or earlier and
\* executes no iteration of index R+2 or more.
C6_EarlyStopByRoundsPlusOne ==
    (/\ pc \in {"loop", "stopped", "finished"}
     /\ params["early_stopping"] = 1
     /\ problem.cost_function = "constant"
     /\ local.maxit > params["early_stopping_rounds"] + 1) =>
        /\ it <= params["early_stopping_rounds"] + 1
        /\ pc # "finished"

\* C6 witness: a run of 5 rounds stopped at index 6 with iterations left
C6_Witness ==
    /\ pc = "stopped"
    /\ problem.cost_function = "constant"
    /\ params["early_stopping_rounds"] = 5
    /\ it = params["early_stopping_rounds"] + 1
    /\ local.maxit > it + 1

\* C7: the returned best_costs has maxit+1 entries, entry 0 the best after
\* initialisation; after a full run entry k is the best recorded after iteration
\* k-1, after an early stop at index it entries 0..it+1 are the recorded bests
\* and entries it+2..maxit are still 0.
C7_BestCostsContents ==
    Returned =>
        /\ DOMAIN best_costs = 0..params["maxit"]
        /\ best_costs[0] = recorded[1]
        /\ pc = "finished" =>
              \A k \in 1..params["maxit"] : best_costs[k] = recorded[k + 1]
        /\ pc = "stopped" =>
              /\ \A k \in 0..(it + 1) : best_costs[k] = recorded[k + 1]
              /\ \A k \in (it + 2)..params["maxit"] : best_costs[k] = 0

\* C7 witness: an early stop that leaves a zero behind non-zero recorded costs
C7_Witness ==
    /\ pc = "stopped"
    /\ it + 2 <= params["maxit"]
    /\ best_costs[it + 1] > 0
    /\ best_costs[params["maxit"]] = 0

\* C8: defaulting keeps every value the caller supplied, velocity_limit_scale
\* included whatever BPSO is, and the supplied scale is the one max_velocity is
\* computed from.
C8_SuppliedValuesKept ==
    pc # "start" =>
        /\ \A k \in DOMAIN given : Has(params, k) /\ params[k] = given[k]
        /\ (pc = "init" /\ Has(given, "velocity_limit_scale")) =>
              local.max_velocity = MaxVelocity(given["velocity_limit_scale"],
                                               problem.varmin, problem.varmax)

\* C9: a problem whose varmin and varmax differ in length never returns a
\* result.
C9_LengthMismatchFails ==
    Len(problem.varmin) # Len(problem.varmax) => ~Returned

\* C10: gbest_position changes only in a step that strictly lowers gbest_value,
\* and then to the position just evaluated; once a particle is initialised it is
\* a position at which the cost function returned gbest_value.
C10_GlobalBestPositionKept ==
    [][/\ gbest_position' # gbest_position =>
              /\ gbest_value' < gbest_value
              /\ gbest_position' = particles'[idx + 1].position
       /\ (pc' \in {"loop", "stopped", "finished"} \/ (pc' = "init" /\ idx' >= 1)) =>
              Cost(problem.cost_function, gbest_position') = gbest_value']_vars

\* C10 witness: every particle has moved off the global best position since it
\* was found in the loop
C10_Witness ==
    /\ pc = "loop"
    /\ it >= 1
    /\ gbest_value < best_costs[0]
    /\ \A n \in DOMAIN particles : particles[n].position # gbest_position
    /\ \E n \in DOMAIN particles : particles[n].pbest_position = gbest_position

====
